---------------------------- MODULE Spec2Model ----------------------------
(***************************************************************************)
(* A model of the blahaj-spinner route handler: GET / returns a random     *)
(* image of r/BLAHAJ, cached in a process-local slot for CACHE_TTL_MS and, *)
(* when the IMAGES_KV binding exists, in a shared key-value store.         *)
(*                                                                         *)
(* Two handlers are modelled: src/src/app/route.ts (one listing request,   *)
(* no shared tier) and src/unnamed/part_000 (four listing variants, the    *)
(* optional shared tier).  An instance runs one of them.                   *)
(*                                                                         *)
(* Strings the code inspects (URLs, the post hint) are sequences of        *)
(* one-character strings, so that the regular expressions and the          *)
(* replacement of "&amp;" are computed and not assumed.                    *)
(***************************************************************************)
EXTENDS Integers, Sequences, FiniteSets, TLC

VARIABLES
    deploy,     \* which handler the instances run, and whether IMAGES_KV is bound
    clock,      \* Date.now(), in milliseconds
    cached,     \* cached[i]: the module-level `cached` of instance i
    kv,         \* the shared store: the two keys of IMAGES_KV
    req,        \* req[r]: the locals and position of one GET invocation
    out,        \* the path of the invocation that responded last
    started,    \* the GET invocations that have begun
    loop,       \* the listing requests of one fetchRedditImageUrl call, one by one
    fDoc,       \* candidate filter run alone: the parsed listing
    fEnv,       \* candidate filter run alone: process.env.MIN_UPVOTES
    fOut        \* candidate filter run alone: what fetchRedditImageUrl did

vars == <<deploy, clock, cached, kv, req, out, started, loop, fDoc, fEnv, fOut>>
hvars == <<deploy, clock, cached, kv, req, out, started>>
fvars == <<fDoc, fEnv, fOut>>

----------------------------------------------------------------------------
(* Bounds of the model. *)

\* Date.now() advances in steps of TickMs, up to MaxTicks steps.
TickMs == 300000
MaxTicks == 2
\* The longest listing the candidate filter is run on.
MaxPosts == 2

----------------------------------------------------------------------------
(* Program constants. *)

CACHE_TTL_MS == 10 * 60 * 1000
KV_TTL_SECONDS == CACHE_TTL_MS \div 1000
DEFAULT_MIN_UPVOTES == 50

----------------------------------------------------------------------------
(* JavaScript values as the code tests them. *)

Undef == [t |-> "undefined", s |-> <<>>, n |-> 0]
Str(s) == [t |-> "string", s |-> s, n |-> 0]
Num(n) == [t |-> "number", s |-> <<>>, n |-> n]

\* ToBoolean of an undefined, string or number value.
Truthy(v) ==
    CASE v.t = "string" -> v.s # <<>>
      [] v.t = "number" -> v.n # 0
      [] OTHER -> FALSE

\* a || b
OrElse(a, b) == IF Truthy(a) THEN a ELSE b

UpperChars == <<"A","B","C","D","E","F","G","H","I","J","K","L","M",
                "N","O","P","Q","R","S","T","U","V","W","X","Y","Z">>
LowerChars == <<"a","b","c","d","e","f","g","h","i","j","k","l","m",
                "n","o","p","q","r","s","t","u","v","w","x","y","z">>

\* The case folding of the regular expressions' /i flag.
Lower(c) ==
    IF \E k \in 1..26 : UpperChars[k] = c
    THEN LowerChars[CHOOSE k \in 1..26 : UpperChars[k] = c]
    ELSE c

\* Whether word w stands in s at position i, ignoring case.
MatchAtCI(s, i, w) ==
    /\ i + Len(w) - 1 <= Len(s)
    /\ \A k \in 1..Len(w) : Lower(s[i + k - 1]) = w[k]

\* /\.(e1|e2|...)(\?|$)/i.test(s) for the extensions exts.
TestExt(s, exts) ==
    \E i \in 1..Len(s) :
        /\ s[i] = "."
        /\ \E e \in exts :
              /\ MatchAtCI(s, i + 1, e)
              /\ \/ i + Len(e) = Len(s)
                 \/ s[i + Len(e) + 1] = "?"

ExtJpg == <<"j","p","g">>
ExtJpeg == <<"j","p","e","g">>
ExtPng == <<"p","n","g">>
ExtGif == <<"g","i","f">>
ExtWebp == <<"w","e","b","p">>
AmpEntity == <<"&","a","m","p",";">>
ImageHint == <<"i","m","a","g","e">>

\* s.replace(/&amp;/g, '&')
RECURSIVE ReplaceAmp(_)
ReplaceAmp(s) ==
    IF s = <<>> THEN <<>>
    ELSE IF Len(s) >= 5 /\ SubSeq(s, 1, 5) = AmpEntity
         THEN <<"&">> \o ReplaceAmp(SubSeq(s, 6, Len(s)))
         ELSE <<s[1]>> \o ReplaceAmp(SubSeq(s, 2, Len(s)))

guessContentTypeFromUrl(url) ==
    IF TestExt(url, {ExtJpg, ExtJpeg}) THEN "image/jpeg"
    ELSE IF TestExt(url, {ExtPng}) THEN "image/png"
    ELSE IF TestExt(url, {ExtGif}) THEN "image/gif"
    ELSE IF TestExt(url, {ExtWebp}) THEN "image/webp"
    ELSE "null"

----------------------------------------------------------------------------
(* process.env.MIN_UPVOTES: unset, or a string.  Number(v) of the string   *)
(* is not finite (NaN, Infinity), or is the number half/2, which covers    *)
(* integers, fractions and negative numbers.                               *)

EnvUnset == [set |-> FALSE, empty |-> FALSE, finite |-> FALSE, half |-> 0]
EnvEmpty == [set |-> TRUE, empty |-> TRUE, finite |-> TRUE, half |-> 0]
EnvText == [set |-> TRUE, empty |-> FALSE, finite |-> FALSE, half |-> 0]
EnvNumber(h) == [set |-> TRUE, empty |-> FALSE, finite |-> TRUE, half |-> h]

getMinUpvotes(v) ==
    IF ~v.set \/ v.empty THEN DEFAULT_MIN_UPVOTES
    ELSE IF v.finite /\ v.half >= 0 THEN v.half \div 2
    ELSE DEFAULT_MIN_UPVOTES

----------------------------------------------------------------------------
(* The candidate filter of fetchRedditImageUrl.  A post is the `data` of a *)
(* child; the nested preview?.images?.[0]?.source?.url is one value,       *)
(* Undef when any link of the chain is missing.                            *)

Post(url, over, hint, preview, score) ==
    [url |-> url, url_overridden_by_dest |-> over, post_hint |-> hint,
     preview |-> preview, score |-> score]

\* The parsed listing: JSON null, or an object whose data.children is
\* missing, something that is no array, or an array of children.
JsonNull == [t |-> "null", children |-> "none", posts |-> <<>>]
JsonNoChildren == [t |-> "object", children |-> "none", posts |-> <<>>]
JsonBadChildren == [t |-> "object", children |-> "other", posts |-> <<>>]
JsonListing(posts) == [t |-> "object", children |-> "array", posts |-> posts]

\* Array.isArray(json?.data?.children) ? json.data.children : [], mapped to p.data
Posts(json) == IF json.children = "array" THEN json.posts ELSE <<>>

\* The callback of the first filter: which posts are kept.
IsCandidate(d) ==
    LET url == OrElse(d.url_overridden_by_dest, d.url)
    IN  IF ~Truthy(url) \/ url.t # "string" THEN FALSE
        ELSE IF TestExt(url.s, {ExtJpg, ExtJpeg, ExtPng, ExtGif, ExtWebp}) THEN TRUE
        ELSE IF d.post_hint = Str(ImageHint) THEN TRUE
        ELSE IF Truthy(d.preview) THEN TRUE
        ELSE FALSE

Candidates(posts) == SelectSeq(posts, IsCandidate)

\* A score filter that wants more than the threshold.
ByScoreStrict(candidates, minUpvotes) ==
    LET Meets(d) == d.score.t = "number" /\ d.score.n > minUpvotes
    IN  SelectSeq(candidates, Meets)

\* candidates.filter(d => typeof d.score === 'number' && d.score >= minUpvotes)
ByScore(candidates, minUpvotes) ==
    LET Meets(d) == d.score.t = "number" /\ d.score.n >= minUpvotes
    IN  SelectSeq(candidates, Meets)

SelectedPool(candidates, minUpvotes) ==
    IF Len(ByScore(candidates, minUpvotes)) > 0
    THEN ByScore(candidates, minUpvotes)
    ELSE candidates

\* The callback of the map: the URL of a post of the pool, "" when none.
ResolveUrl(d) ==
    LET url == OrElse(OrElse(d.url_overridden_by_dest, d.url), d.preview)
    IN  IF url.t = "string" THEN ReplaceAmp(url.s) ELSE <<>>

\* selectedPool.map(...).filter(Boolean)
ImageUrls(pool) ==
    LET NonEmpty(u) == u # <<>>
    IN  SelectSeq([k \in 1..Len(pool) |-> ResolveUrl(pool[k])], NonEmpty)

\* Everything after the listing is parsed: the URLs Math.random() picks from.
\* The empty sequence is the throw of 'No image posts found in subreddit'.
UrlsOf(json, env) ==
    ImageUrls(SelectedPool(Candidates(Posts(json)), getMinUpvotes(env)))

----------------------------------------------------------------------------
(* The candidate filter run alone, on every listing of at most MaxPosts    *)
(* posts built from SamplePosts and every setting of SampleEnvs.           *)

UrlJpgAmp == <<"a",".","J","P","G","?","x","&","a","m","p",";","y">>
UrlPage == <<"r","/","c">>
UrlPng == <<"b",".","p","n","g">>
UrlPreview == <<"p",".","g","i","f","?","&","a","m","p",";">>
LinkHint == <<"l","i","n","k">>

SamplePosts ==
    { Post(url, over, hp[1], hp[2], score) :
        url \in {Undef, Str(UrlJpgAmp), Str(UrlPage)},
        over \in {Undef, Str(UrlPng)},
        hp \in {<<Undef, Undef>>, <<Str(ImageHint), Undef>>,
                <<Str(LinkHint), Str(UrlPreview)>>},
        score \in {Num(10), Num(60)} }
    \cup { Post(Str(UrlJpgAmp), Undef, Undef, Undef, Undef),
           Post(Str(UrlJpgAmp), Undef, Undef, Undef, Str(<<"6","0">>)),
           Post(Str(UrlPage), Undef, Str(ImageHint), Undef, Num(30)),
           Post(Num(7), Undef, Str(ImageHint), Str(UrlPreview), Num(60)),
           Post(Str(<<>>), Undef, Str(ImageHint), Str(UrlPreview), Num(60)) }

SampleEnvs == {EnvUnset, EnvText, EnvNumber(61), EnvNumber(-3)}

SampleDocs ==
    {JsonNull, JsonNoChildren, JsonBadChildren}
    \cup { JsonListing(ps) : ps \in UNION { [1..n -> SamplePosts] : n \in 0..MaxPosts } }

NoOut == [t |-> "none", url |-> <<>>]

FilterInit ==
    /\ fDoc \in SampleDocs
    /\ fEnv \in SampleEnvs
    /\ fOut = NoOut

\* imageUrls[Math.floor(Math.random() * imageUrls.length)]
FilterSelect ==
    /\ fOut.t = "none"
    /\ \E idx \in 1..Len(UrlsOf(fDoc, fEnv)) :
          fOut' = [t |-> "url", url |-> UrlsOf(fDoc, fEnv)[idx]]
    /\ UNCHANGED <<fDoc, fEnv, hvars, loop>>

\* throw new Error('No image posts found in subreddit')
FilterThrow ==
    /\ fOut.t = "none"
    /\ Len(UrlsOf(fDoc, fEnv)) = 0
    /\ fOut' = [t |-> "throw", url |-> <<>>]
    /\ UNCHANGED <<fDoc, fEnv, hvars, loop>>

----------------------------------------------------------------------------
(* The request handler.                                                    *)

\* Two server instances sharing the store, and two GET invocations, each
\* handled once, that may overlap, on one instance or on both.
Instances == {1, 2}
Requests == {1, 2}

\* The deployments: route.ts, part_000 without the IMAGES_KV binding, and
\* part_000 with it.
Deployments == {"route", "part000", "part000-kv"}

\* typeof IMAGES_KV !== 'undefined'
KvDefined == deploy = "part000-kv"

\* The (URL, headers) variants of the listing request: route.ts sends the
\* one request, part_000 tries four.
VariantsOf(d) ==
    IF d = "route"
    THEN << [host |-> "www.reddit.com", browser |-> FALSE] >>
    ELSE << [host |-> "www.reddit.com", browser |-> FALSE],
            [host |-> "old.reddit.com", browser |-> FALSE],
            [host |-> "www.reddit.com", browser |-> TRUE],
            [host |-> "old.reddit.com", browser |-> TRUE] >>
fetchVariants == VariantsOf(deploy)

\* `cached`: null, or a CachedImage.
NoSlot == [has |-> FALSE, fetchedAt |-> 0, data |-> "", contentType |-> ""]
CachedImage(fetchedAt, data, contentType) ==
    [has |-> TRUE, fetchedAt |-> fetchedAt, data |-> data, contentType |-> contentType]

\* One key of the store: absent, or a value that expires at `exp`.
NoEntry == [has |-> FALSE, val |-> "", exp |-> 0]
Entry(val, exp) == [has |-> TRUE, val |-> val, exp |-> exp]

\* The text under KV_META_KEY: JSON.stringify({contentType, fetchedAt}) is
\* the text "json:<contentType>"; any other text does not parse.
MetaText(contentType) == "json:" \o contentType
GarbageText == "not json"
MetaTexts == { MetaText(c) : c \in {"image/jpeg", "image/png", "image/gif",
                                     "image/webp", "application/octet-stream"} }

\* JSON.parse(metaStr).contentType; "throw" when JSON.parse throws.
ParseMetaContentType(metaStr) ==
    IF metaStr \in MetaTexts
    THEN CHOOSE c \in {"image/jpeg", "image/png", "image/gif", "image/webp",
                       "application/octet-stream"} : MetaText(c) = metaStr
    ELSE "throw"

\* IMAGES_KV.get(key): the value, null once the key has expired.
KvGet(entry) ==
    IF entry.has /\ clock < entry.exp
    THEN [st |-> "value", v |-> entry.val]
    ELSE [st |-> "null", v |-> ""]

Pending == [st |-> "pending", v |-> ""]
Rejected == [st |-> "rejected", v |-> ""]
Unused == [st |-> "unused", v |-> ""]

CacheControlValue == "public, s-maxage=600, stale-while-revalidate=60"
Absent == "(absent)"

NoResponse ==
    [status |-> 0, body |-> "", contentType |-> Absent, cacheControl |-> Absent,
     xCacheStatus |-> Absent, xCacheSource |-> Absent]

\* new Response(body, {status: 200, headers: {...}})
Response200(body, contentType, cacheControl, xCacheStatus, xCacheSource) ==
    [status |-> 200, body |-> body, contentType |-> contentType,
     cacheControl |-> cacheControl, xCacheStatus |-> xCacheStatus,
     xCacheSource |-> xCacheSource]

\* A failure response with another server error status.
Response500 ==
    [status |-> 500, body |-> "Could not fetch image",
     contentType |-> "text/plain;charset=UTF-8", cacheControl |-> Absent,
     xCacheStatus |-> Absent, xCacheSource |-> Absent]

\* new Response('Could not fetch image', {status: 502}): a string body is
\* sent as text/plain.
Response502 ==
    [status |-> 502, body |-> "Could not fetch image",
     contentType |-> "text/plain;charset=UTF-8", cacheControl |-> Absent,
     xCacheStatus |-> Absent, xCacheSource |-> Absent]

\* A shared-tier response without the source marker.
KvHitResponseUnmarked(buf, contentType) ==
    Response200(buf, contentType, CacheControlValue, Absent, Absent)

\* The response of a shared-tier hit.
KvHitResponse(buf, contentType) ==
    Response200(buf, contentType, CacheControlValue, Absent, "kv")

\* The response from a fresh local entry.
FreshResponse(slot) ==
    Response200(slot.data, slot.contentType, CacheControlValue, Absent, Absent)

\* The response after a successful live fetch.
LiveResponse(arrayBuffer, contentType) ==
    Response200(arrayBuffer, contentType, CacheControlValue, Absent, Absent)

\* A fallback response that looks like a fresh one.
StaleResponseUnmarked(slot) ==
    Response200(slot.data, slot.contentType, CacheControlValue, Absent, Absent)

\* The response of the catch block when `cached` is set.
StaleResponse(slot) ==
    Response200(slot.data, slot.contentType, Absent, "stale", Absent)

\* A freshness test that also accepts an entry of age exactly CACHE_TTL_MS.
IsFreshInclusive(slot, now) == slot.has /\ now - slot.fetchedAt <= CACHE_TTL_MS

\* cached && now - cached.fetchedAt < CACHE_TTL_MS
IsFresh(slot, now) == slot.has /\ now - slot.fetchedAt < CACHE_TTL_MS

\* imgRes.headers.get('Content-Type') || guessContentTypeFromUrl(imageUrl)
\*   || 'application/octet-stream'
ResolveContentType(header, imageUrl) ==
    IF header # "" THEN header
    ELSE IF guessContentTypeFromUrl(imageUrl) # "null"
         THEN guessContentTypeFromUrl(imageUrl)
         ELSE "application/octet-stream"

----------------------------------------------------------------------------
(* The listing request of fetchRedditImageUrl.  An answer of upstream is a *)
(* fault (a 403, another non-2xx status, a rejected fetch, a res.json()    *)
(* that throws) or a 2xx response with a JSON document.                    *)

ListingFaults == {"status403", "statusOther", "network", "parse"}
FaultAnswer(e) == [ok |-> FALSE, fault |-> e, json |-> JsonNull]
JsonAnswer(json) == [ok |-> TRUE, fault |-> "", json |-> json]

\* let lastErr = null; let json = null; (no request sent yet)
LoopStart == [found |-> FALSE, json |-> JsonNull, lastErr |-> "null", calls |-> 0]

\* A loop body that keeps the first error it recorded.
TryVariantFirstError(st, answer) ==
    IF answer.ok
    THEN [st EXCEPT !.found = TRUE, !.json = answer.json, !.calls = st.calls + 1]
    ELSE [st EXCEPT !.lastErr = IF st.lastErr = "null" THEN answer.fault ELSE st.lastErr,
                    !.calls = st.calls + 1]

\* The body of `for (const c of fetchVariants)` for one variant: a fault is
\* recorded in lastErr and the loop goes on (`continue` on a 403, the inner
\* catch otherwise); a parsed document ends the loop (`break`).
TryVariant(st, answer) ==
    IF answer.ok
    THEN [st EXCEPT !.found = TRUE, !.json = answer.json, !.calls = st.calls + 1]
    ELSE [st EXCEPT !.lastErr = answer.fault, !.calls = st.calls + 1]

\* The loop over the variants, answered by answers[1], answers[2], ...
RECURSIVE RunVariants(_, _, _, _)
RunVariants(variants, st, answers, i) ==
    IF st.found \/ i > Len(variants) \/ i > Len(answers) THEN st
    ELSE RunVariants(variants, TryVariant(st, answers[i]), answers, i + 1)

\* The listing part of fetchRedditImageUrl: the parsed document, or the
\* error thrown.  route.ts sends one request and throws on its fault;
\* part_000 runs the loop and then `if (!json) throw lastErr ?? new Error(...)`.
AfterLoop(d, st) ==
    IF d = "route"
    THEN IF st.found
         THEN [thrown |-> FALSE, json |-> st.json, err |-> "none", calls |-> st.calls]
         ELSE [thrown |-> TRUE, json |-> JsonNull, err |-> st.lastErr, calls |-> st.calls]
    ELSE IF st.found /\ st.json.t # "null"
         THEN [thrown |-> FALSE, json |-> st.json, err |-> "none", calls |-> st.calls]
         ELSE [thrown |-> TRUE, json |-> JsonNull,
               err |-> IF st.lastErr = "null" THEN "generic" ELSE st.lastErr,
               calls |-> st.calls]

FetchListingOf(d, answers) ==
    AfterLoop(d, RunVariants(VariantsOf(d), LoopStart, answers, 1))

FetchListing(answers) == FetchListingOf(deploy, answers)

\* The listing requests one by one.  answers[k] is what upstream answers to
\* variant k; log lists the variants requested so far, i is the variant the
\* loop is at, and out is what the listing part has returned or thrown.
LoopDocs ==
    { JsonNull, JsonNoChildren,
      JsonListing(<< Post(Str(UrlPng), Undef, Undef, Undef, Num(60)) >>) }
LoopAnswers ==
    { FaultAnswer(e) : e \in ListingFaults } \cup { JsonAnswer(j) : j \in LoopDocs }
LoopOff == [answers |-> <<>>, st |-> LoopStart, i |-> 0, log |-> <<>>,
            out |-> [thrown |-> FALSE, json |-> JsonNull, err |-> "off", calls |-> 0]]
LoopRunning == [thrown |-> FALSE, json |-> JsonNull, err |-> "running", calls |-> 0]

LoopInit ==
    \E answers \in [1..Len(fetchVariants) -> LoopAnswers] :
        loop = [answers |-> answers, st |-> LoopStart, i |-> 1, log |-> <<>>,
                out |-> LoopRunning]

\* const res = await fetch(c.url, ...) ... json = await res.json(): one
\* pass of the loop body, for variant loop.i.
LoopAttempt ==
    /\ loop.out = LoopRunning
    /\ ~loop.st.found /\ loop.i <= Len(fetchVariants)
    /\ loop' = [loop EXCEPT !.st = TryVariant(loop.st, loop.answers[loop.i]),
                            !.i = loop.i + 1,
                            !.log = Append(loop.log, loop.i)]
    /\ UNCHANGED <<hvars, fvars>>

\* The loop is left, by `break` or after the last variant: the document is
\* handed on, or the error thrown.
LoopFinish ==
    /\ loop.out = LoopRunning
    /\ loop.st.found \/ loop.i > Len(fetchVariants)
    /\ loop' = [loop EXCEPT !.out = AfterLoop(deploy, loop.st)]
    /\ UNCHANGED <<hvars, fvars>>

----------------------------------------------------------------------------
(* One GET invocation: its locals and its position.  The fields path, err, *)
(* kept, upstream, listingCalls and imageCalls record what the invocation  *)
(* did and are read by no action: upstream says that a listing request was *)
(* sent, listingCalls counts those of the step that just ended, kept is    *)
(* the number of posts the filter kept in that step.                       *)

IdleReq ==
    [pc |-> "idle", inst |-> 1, now |-> 0,
     buf |-> Unused, metaStr |-> Unused,
     imageUrl |-> <<>>, contentType |-> "", arrayBuffer |-> "",
     putBlob |-> "none", putMeta |-> "none",
     resp |-> NoResponse,
     path |-> "none", err |-> "none", kept |-> -1,
     upstream |-> FALSE, listingCalls |-> 0, imageCalls |-> 0]

\* return new Response(...): the invocation ends.
Respond(rec, resp, path) ==
    [rec EXCEPT !.pc = "done", !.resp = resp, !.path = path]

\* "Serve cached if fresh", and otherwise the entry into the try block: the
\* first listing request is sent.
LocalCheck(rec) ==
    LET slot == cached[rec.inst]
    IN  IF IsFresh(slot, rec.now)
        THEN Respond(rec, FreshResponse(slot), "fresh")
        ELSE [rec EXCEPT !.pc = "listing", !.upstream = TRUE, !.listingCalls = 1]

\* A catch block that answers 502 when the entry it holds has expired.
FailExpired502(rec, err) ==
    LET slot == cached[rec.inst]
        caught == [rec EXCEPT !.err = err]
    IN  IF slot.has /\ clock - slot.fetchedAt < CACHE_TTL_MS
        THEN Respond(caught, StaleResponse(slot), "stale")
        ELSE Respond(caught, Response502, "error")

\* The catch block of GET.
Fail(rec, err) ==
    LET slot == cached[rec.inst]
        caught == [rec EXCEPT !.err = err]
    IN  IF slot.has
        THEN Respond(caught, StaleResponse(slot), "stale")
        ELSE Respond(caught, Response502, "error")

\* What is left of an invocation that has responded: the puts still in
\* flight, with what they write.
Retire(rec) ==
    IF rec.putBlob = "pending" \/ rec.putMeta = "pending"
    THEN [IdleReq EXCEPT
            !.inst = rec.inst,
            !.putBlob = IF rec.putBlob = "pending" THEN "pending" ELSE "none",
            !.putMeta = IF rec.putMeta = "pending" THEN "pending" ELSE "none",
            !.arrayBuffer = IF rec.putBlob = "pending" THEN rec.arrayBuffer ELSE "",
            !.contentType = IF rec.putMeta = "pending" THEN rec.contentType ELSE ""]
    ELSE IdleReq

NoOutcome == [path |-> "none", body |-> "", empty |-> FALSE, expired |-> FALSE]

\* What the invocation that responded did: its path, the body it sent,
\* whether it caught the error of the empty candidate set, and whether the
\* local entry of its instance had expired by then.
Outcome(rec, slot) ==
    [path |-> rec.path, body |-> rec.resp.body, empty |-> rec.err = "empty",
     expired |-> slot.has /\ clock - slot.fetchedAt >= CACHE_TTL_MS]

\* An invocation that goes on.  A local is reset once the code cannot read
\* it again: now, buf and metaStr after the local check.
InFlight(rec) ==
    IF rec.pc = "kvread" THEN rec
    ELSE [rec EXCEPT !.now = 0, !.buf = Unused, !.metaStr = Unused, !.kept = -1,
                     !.listingCalls = IF rec.pc = "listing" THEN 1 ELSE 0]

\* A step after which a shared-tier hit is kept in the local slot.
StayFilling(rec) ==
    [rec |-> rec,
     slot |-> IF rec.path = "kv"
              THEN CachedImage(clock, rec.resp.body, rec.resp.contentType)
              ELSE cached[rec.inst]]

\* A step that empties the local slot when the invocation has caught an
\* error.
StayClearing(rec) ==
    [rec |-> rec,
     slot |-> IF rec.err # "none" THEN NoSlot ELSE cached[rec.inst]]

\* A step of an invocation: the invocation after it, and the local slot of
\* its instance after it.
Stay(rec) == [rec |-> rec, slot |-> cached[rec.inst]]

\* Invocation r takes step st: it goes on, or has responded.
Apply(r, st) ==
    /\ req' = [req EXCEPT ![r] = IF st.rec.pc = "done" THEN Retire(st.rec)
                                 ELSE InFlight(st.rec)]
    /\ out' = IF st.rec.pc = "done" THEN Outcome(st.rec, cached[st.rec.inst]) ELSE out
    /\ cached' = [cached EXCEPT ![st.rec.inst] = st.slot]

\* export async function GET(): up to the first await.
StartOf(i) ==
    LET rec == [IdleReq EXCEPT !.inst = i, !.now = clock]
    IN  IF KvDefined
        THEN [rec EXCEPT !.pc = "kvread", !.buf = Pending, !.metaStr = Pending]
        ELSE LocalCheck(rec)

StartSteps(i) == { Stay(StartOf(i)) }

\* The instances invocation r may run on.  Instances are alike and share
\* the store only: without the store one instance is followed, and with it
\* invocation 1 runs on instance 1.
InstancesOf(r) ==
    IF ~KvDefined \/ r = 1 THEN {1} ELSE Instances

Start(r, i) ==
    /\ req[r] = IdleReq
    /\ i \in InstancesOf(r)
    /\ r \notin started
    /\ started' = started \cup {r}
    /\ \E st \in StartSteps(i) : Apply(r, st)
    /\ UNCHANGED <<deploy, clock, kv, fvars, loop>>

\* Promise.all of the two reads has settled: it rejects with the first
\* rejection, and resolves when both reads have.
KvReadSettled(rec) ==
    \/ rec.buf = Rejected
    \/ rec.metaStr = Rejected
    \/ rec.buf # Pending /\ rec.metaStr # Pending

\* A hit test that does not parse the metadata.
KvHitUnparsed(rec) ==
    /\ rec.buf.st = "value"
    /\ rec.metaStr.st = "value" /\ rec.metaStr.v # ""

\* if (buf && metaStr) with a JSON.parse that does not throw.
KvHit(rec) ==
    /\ rec.buf.st = "value"
    /\ rec.metaStr.st = "value" /\ rec.metaStr.v # ""
    /\ ParseMetaContentType(rec.metaStr.v) # "throw"

\* A continuation that looks at the local slot before the shared tier.
AfterKvReadLocalFirst(rec) ==
    IF IsFresh(cached[rec.inst], rec.now) THEN LocalCheck(rec)
    ELSE IF KvHit(rec)
    THEN Respond(rec, KvHitResponse(rec.buf.v, ParseMetaContentType(rec.metaStr.v)),
                 "kv")
    ELSE LocalCheck(rec)

\* The continuation of the shared-tier read.
AfterKvRead(rec) ==
    IF KvHit(rec)
    THEN Respond(rec, KvHitResponse(rec.buf.v, ParseMetaContentType(rec.metaStr.v)),
                 "kv")
    ELSE LocalCheck(rec)

\* A read has settled.  The continuation reads nothing of the store and
\* not the clock, so it is taken in the step of the read that settles
\* Promise.all.
AfterGet(rec) == IF KvReadSettled(rec) THEN AfterKvRead(rec) ELSE rec

\* IMAGES_KV.get(KV_KEY, 'arrayBuffer') settles.
KvGetBlobSteps(rec) ==
    { Stay(AfterGet([rec EXCEPT !.buf = v])) : v \in {KvGet(kv.blob), Rejected} }

KvGetBlob(r) ==
    /\ req[r].pc = "kvread" /\ req[r].buf = Pending
    /\ \E st \in KvGetBlobSteps(req[r]) : Apply(r, st)
    /\ UNCHANGED <<deploy, clock, kv, started, fvars, loop>>

\* IMAGES_KV.get(KV_META_KEY) settles.
KvGetMetaSteps(rec) ==
    { Stay(AfterGet([rec EXCEPT !.metaStr = v])) : v \in {KvGet(kv.meta), Rejected} }

KvGetMeta(r) ==
    /\ req[r].pc = "kvread" /\ req[r].metaStr = Pending
    /\ \E st \in KvGetMetaSteps(req[r]) : Apply(r, st)
    /\ UNCHANGED <<deploy, clock, kv, started, fvars, loop>>

----------------------------------------------------------------------------
(* The live fetch.  The listing requests read and write nothing shared, so *)
(* fetchRedditImageUrl is one step; so is the image request with its        *)
(* arrayBuffer().                                                           *)

\* What upstream may answer to the listing requests of one invocation:
\* faults, then a document, or faults only.
HandlerDocs ==
    { JsonNull, JsonNoChildren, JsonBadChildren,
      JsonListing(<< Post(Str(UrlPage), Str(UrlPng), Undef, Undef, Num(60)),
                     Post(Str(UrlPage), Undef, Str(ImageHint), Undef, Num(60)),
                     Post(Str(UrlJpgAmp), Undef, Undef, Undef, Num(10)) >>),
      JsonListing(<< Post(Undef, Undef, Undef, Str(UrlPreview), Num(60)) >>) }
HandlerEnvs == {EnvUnset}
HandlerAnswersOf(d) ==
    { [k \in 1..n |-> IF k < n THEN FaultAnswer(e) ELSE last] :
        n \in {1, Len(VariantsOf(d))}, e \in ListingFaults,
        last \in { JsonAnswer(j) : j \in HandlerDocs }
                 \cup { FaultAnswer(f) : f \in ListingFaults } }

\* What fetchRedditImageUrl can do in each deployment: the result of the
\* listing requests, and the URLs to pick from when they gave a document.
ListingOutcomes ==
    [d \in Deployments |->
        UNION { { [res |-> FetchListingOf(d, a),
                   kept |-> Len(Candidates(Posts(FetchListingOf(d, a).json))),
                   urls |-> IF FetchListingOf(d, a).thrown THEN <<>>
                            ELSE UrlsOf(FetchListingOf(d, a).json, env)] :
                  env \in HandlerEnvs } :
                a \in HandlerAnswersOf(d) }]

\* What upstream may answer to the image request for a URL: the
\* Content-Type header ("" when there is none) and the body.
ImageAnswers(url) ==
    IF url = UrlPng THEN { [header |-> "", bytes |-> "bytes-1"] }
    ELSE { [header |-> "", bytes |-> "bytes-2"],
           [header |-> "image/png", bytes |-> "bytes-1"] }
ImageFaults == {"imageNetwork", "imageStatus", "imageBody"}

\* A candidate step that returns without a URL instead of throwing: the
\* image request is sent for the missing URL.
AfterListingNoThrow(rec, o, idx) ==
    LET called == [rec EXCEPT !.listingCalls = o.res.calls]
        ran == [called EXCEPT !.kept = o.kept]
    IN  IF o.res.thrown THEN Fail(called, o.res.err)
        ELSE [ran EXCEPT !.pc = "image",
                         !.imageUrl = IF Len(o.urls) = 0 THEN UrlPage ELSE o.urls[idx],
                         !.imageCalls = rec.imageCalls + 1]

\* fetchRedditImageUrl has returned imageUrls[idx], and the image request
\* is sent; or it has thrown.
AfterListing(rec, o, idx) ==
    LET called == [rec EXCEPT !.listingCalls = o.res.calls]
        ran == [called EXCEPT !.kept = o.kept]
    IN  IF o.res.thrown THEN Fail(called, o.res.err)
        ELSE IF Len(o.urls) = 0 THEN Fail(ran, "empty")
        ELSE [ran EXCEPT !.pc = "image", !.imageUrl = o.urls[idx],
                         !.imageCalls = rec.imageCalls + 1]

\* Math.floor(Math.random() * imageUrls.length), counted from 1.
RandomIndexes(urls) == IF Len(urls) = 0 THEN {1} ELSE 1..Len(urls)

ListingSteps(rec) ==
    UNION { { Stay(AfterListing(rec, o, idx)) : idx \in RandomIndexes(o.urls) } :
            o \in ListingOutcomes[deploy] }

ListingDone(r) ==
    /\ req[r].pc = "listing"
    /\ \E st \in ListingSteps(req[r]) : Apply(r, st)
    /\ UNCHANGED <<deploy, clock, kv, started, fvars, loop>>

\* The puts are sent (with IMAGES_KV), or the response is.
AfterStore(rec) ==
    IF KvDefined
    THEN [rec EXCEPT !.pc = "kvwrite", !.putBlob = "pending", !.putMeta = "pending"]
    ELSE Respond(rec, LiveResponse(rec.arrayBuffer, rec.contentType), "live")

\* A store that updates the fields of an existing entry one by one and
\* leaves its content type.
ImageFetchedFieldwise(rec, header, bytes) ==
    LET got == [rec EXCEPT !.contentType = ResolveContentType(header, rec.imageUrl),
                           !.arrayBuffer = bytes, !.imageUrl = <<>>]
        old == cached[rec.inst]
    IN  [rec |-> AfterStore(got),
         slot |-> IF old.has
                  THEN CachedImage(clock, got.arrayBuffer, old.contentType)
                  ELSE CachedImage(clock, got.arrayBuffer, got.contentType)]

\* The image arrived: contentType and arrayBuffer are set, and `cached` is
\* replaced by { fetchedAt: Date.now(), data: arrayBuffer, contentType }.
ImageFetched(rec, header, bytes) ==
    LET got == [rec EXCEPT !.contentType = ResolveContentType(header, rec.imageUrl),
                           !.arrayBuffer = bytes, !.imageUrl = <<>>]
    IN  [rec |-> AfterStore(got),
         slot |-> CachedImage(clock, got.arrayBuffer, got.contentType)]

\* Image steps that send the image request once more after a fault.
ImageStepsRetrying(rec) ==
    { Stay(IF rec.imageCalls < 2
           THEN [rec EXCEPT !.imageCalls = rec.imageCalls + 1]
           ELSE Fail(rec, e)) : e \in ImageFaults }
    \cup { ImageFetched(rec, a.header, a.bytes) : a \in ImageAnswers(rec.imageUrl) }

ImageSteps(rec) ==
    { Stay(Fail(rec, e)) : e \in ImageFaults }
    \cup { ImageFetched(rec, a.header, a.bytes) : a \in ImageAnswers(rec.imageUrl) }

ImageDone(r) ==
    /\ req[r].pc = "image"
    /\ \E st \in ImageSteps(req[r]) : Apply(r, st)
    /\ UNCHANGED <<deploy, clock, kv, started, fvars, loop>>

\* { expirationTtl: KV_TTL_SECONDS }
KvExpiry == clock + KV_TTL_SECONDS * 1000

\* Promise.all of the two puts has settled (a rejection is caught and logged).
KvWriteSettled(rec) ==
    \/ rec.putBlob = "rejected"
    \/ rec.putMeta = "rejected"
    \/ rec.putBlob = "ok" /\ rec.putMeta = "ok"

\* A continuation of the puts that lets a rejected put reach the catch
\* block of GET.
AfterPutPropagating(rec) ==
    IF rec.pc = "kvwrite" /\ KvWriteSettled(rec)
    THEN IF rec.putBlob = "rejected" \/ rec.putMeta = "rejected"
         THEN Fail(rec, "kvPut")
         ELSE Respond(rec, LiveResponse(rec.arrayBuffer, rec.contentType), "live")
    ELSE IF rec.pc = "idle" THEN Retire(rec)
    ELSE rec

\* A put has settled.  The response after the puts reads nothing shared, so
\* it is sent in the step of the put that settles Promise.all; a put that
\* settles later finds the invocation over.
AfterPut(rec) ==
    IF rec.pc = "kvwrite" /\ KvWriteSettled(rec)
    THEN Respond(rec, LiveResponse(rec.arrayBuffer, rec.contentType), "live")
    ELSE IF rec.pc = "idle" THEN Retire(rec)
    ELSE rec

PutBlobStep(rec, settled) == Stay(AfterPut([rec EXCEPT !.putBlob = settled]))
PutMetaStep(rec, settled) == Stay(AfterPut([rec EXCEPT !.putMeta = settled]))

\* IMAGES_KV.put(KV_KEY, arrayBuffer, ...) settles.
KvPutBlob(r) ==
    /\ req[r].putBlob = "pending"
    /\ \/ /\ kv' = [kv EXCEPT !.blob = Entry(req[r].arrayBuffer, KvExpiry)]
          /\ Apply(r, PutBlobStep(req[r], "ok"))
       \/ /\ Apply(r, PutBlobStep(req[r], "rejected"))
          /\ UNCHANGED kv
    /\ UNCHANGED <<deploy, clock, started, fvars, loop>>

\* IMAGES_KV.put(KV_META_KEY, JSON.stringify({contentType, fetchedAt}), ...) settles.
KvPutMeta(r) ==
    /\ req[r].putMeta = "pending"
    /\ \/ /\ kv' = [kv EXCEPT !.meta = Entry(MetaText(req[r].contentType), KvExpiry)]
          /\ Apply(r, PutMetaStep(req[r], "ok"))
       \/ /\ Apply(r, PutMetaStep(req[r], "rejected"))
          /\ UNCHANGED kv
    /\ UNCHANGED <<deploy, clock, started, fvars, loop>>

\* The store drops a key at its expiration time.
Expire(entry, t) == IF entry.has /\ entry.exp <= t THEN NoEntry ELSE entry

\* Time passes.
Tick ==
    /\ clock < MaxTicks * TickMs
    /\ clock' = clock + TickMs
    /\ kv' = [blob |-> Expire(kv.blob, clock + TickMs),
              meta |-> Expire(kv.meta, clock + TickMs)]
    /\ UNCHANGED <<deploy, cached, req, out, started, fvars, loop>>

\* Every step invocation r can take in the current state.
HandlerSteps(r) ==
    LET rec == req[r]
    IN  CASE rec = IdleReq -> UNION { StartSteps(i) : i \in InstancesOf(r) }
          [] rec.pc = "kvread" ->
                (IF rec.buf = Pending THEN KvGetBlobSteps(rec) ELSE {})
                \cup (IF rec.metaStr = Pending THEN KvGetMetaSteps(rec) ELSE {})
          [] rec.pc = "listing" -> ListingSteps(rec)
          [] rec.pc = "image" -> ImageSteps(rec)
          [] OTHER ->
                (IF rec.putBlob = "pending"
                 THEN {PutBlobStep(rec, "ok"), PutBlobStep(rec, "rejected")} ELSE {})
                \cup (IF rec.putMeta = "pending"
                      THEN {PutMetaStep(rec, "ok"), PutMetaStep(rec, "rejected")} ELSE {})

\* The steps of invocation r that send its response.
Responses(r) == { st \in HandlerSteps(r) : st.rec.pc = "done" }

----------------------------------------------------------------------------
(* The specifications. *)

FilterOff == [t |-> "off", url |-> <<>>]

\* The store outlives the instances: when they start it is empty, or holds
\* a text under KV_META_KEY that this program did not write, or holds the
\* image an earlier instance has just stored.
InitialStores ==
    { [blob |-> NoEntry, meta |-> NoEntry],
      [blob |-> NoEntry, meta |-> Entry(GarbageText, KV_TTL_SECONDS * 1000)],
      [blob |-> Entry("bytes-2", KV_TTL_SECONDS * 1000),
       meta |-> Entry(MetaText("application/octet-stream"), KV_TTL_SECONDS * 1000)] }

Init ==
    /\ deploy \in Deployments
    /\ clock = 0
    /\ cached = [i \in Instances |-> NoSlot]
    /\ kv \in IF deploy = "part000-kv" THEN InitialStores
              ELSE {[blob |-> NoEntry, meta |-> NoEntry]}
    /\ req = [r \in Requests |-> IdleReq]
    /\ out = NoOutcome
    /\ started = {}
    /\ fDoc = JsonNull /\ fEnv = EnvUnset /\ fOut = FilterOff
    /\ loop = LoopOff

Next ==
    \/ \E r \in Requests, i \in Instances : Start(r, i)
    \/ \E r \in Requests : KvGetBlob(r)
    \/ \E r \in Requests : KvGetMeta(r)
    \/ \E r \in Requests : ListingDone(r)
    \/ \E r \in Requests : ImageDone(r)
    \/ \E r \in Requests : KvPutBlob(r)
    \/ \E r \in Requests : KvPutMeta(r)
    \/ Tick

Spec == Init /\ [][Next]_vars

\* Every outbound call of an invocation (a read or a put of the store, the
\* listing requests, the image request) eventually returns or fails.
CallsReturn ==
    \A r \in Requests :
        /\ WF_vars(KvGetBlob(r)) /\ WF_vars(KvGetMeta(r))
        /\ WF_vars(ListingDone(r)) /\ WF_vars(ImageDone(r))
        /\ WF_vars(KvPutBlob(r)) /\ WF_vars(KvPutMeta(r))

SpecFair == Spec /\ CallsReturn

\* The candidate filter alone, the handler at rest.
InitFilter ==
    /\ FilterInit
    /\ loop = LoopOff
    /\ deploy = "route"
    /\ clock = 0
    /\ cached = [i \in Instances |-> NoSlot]
    /\ kv = [blob |-> NoEntry, meta |-> NoEntry]
    /\ req = [r \in Requests |-> IdleReq]
    /\ out = NoOutcome
    /\ started = {}

NextFilter == FilterSelect \/ FilterThrow

SpecFilter == InitFilter /\ [][NextFilter]_vars

\* The listing requests alone, the handler at rest.
InitListing ==
    /\ deploy \in {"route", "part000"}
    /\ LoopInit
    /\ clock = 0
    /\ cached = [i \in Instances |-> NoSlot]
    /\ kv = [blob |-> NoEntry, meta |-> NoEntry]
    /\ req = [r \in Requests |-> IdleReq]
    /\ out = NoOutcome
    /\ started = {}
    /\ fDoc = JsonNull /\ fEnv = EnvUnset /\ fOut = FilterOff

NextListing == LoopAttempt \/ LoopFinish

SpecListing == InitListing /\ [][NextListing]_vars


----------------------------------------------------------------------------
(* Properties of the request handler, checked under Spec.  A property of   *)
(* a step is stated over HandlerSteps: it holds of every step an           *)
(* invocation can take in every reachable state.                           *)

\* C1, as stated: in every interleaving, a response sent while the local
\* slot holds an entry younger than the TTL, stored by another invocation's
\* fetch, carries the bytes of the slot, and the invocation that sends it
\* sent no listing and no image request.
OrigC1 ==
    \A r \in Requests : \A st \in Responses(r) :
        LET slot == cached[st.rec.inst]
        IN  (/\ req[r].pc # "kvwrite"
             /\ slot.has /\ clock - slot.fetchedAt < CACHE_TTL_MS)
            => /\ st.rec.resp.body = slot.data
               /\ ~st.rec.upstream /\ st.rec.imageCalls = 0

\* C1, amended: an invocation that reaches its local check (no shared-tier
\* hit) while the slot holds an entry younger than the TTL, by the clock
\* read at the start of the request, responds 200 with the bytes and the
\* content type of the slot, sends no listing and no image request and
\* leaves the slot alone; and only such an invocation answers on this path.
\* An invocation that passed the check before the entry was stored runs its
\* own fetch.
FreshServedFromSlot ==
    \A r \in Requests : \A st \in HandlerSteps(r) :
        LET rec == st.rec
            slot == cached[rec.inst]
            young == slot.has /\ rec.now - slot.fetchedAt < 10 * 60 * 1000
            checking == req[r] = IdleReq \/ req[r].pc = "kvread"
        IN  /\ (checking /\ rec.pc # "kvread" /\ rec.path # "kv" /\ young)
               => /\ rec.pc = "done" /\ rec.path = "fresh"
                  /\ rec.resp.status = 200
                  /\ rec.resp.body = slot.data
                  /\ rec.resp.contentType = slot.contentType
                  /\ ~rec.upstream /\ rec.listingCalls = 0 /\ rec.imageCalls = 0
                  /\ st.slot = slot
            /\ rec.path = "fresh" => checking /\ young

\* A fresh entry was served: an entry stored at time 0 answers a later
\* invocation, within the TTL.
FreshServedWitness ==
    /\ out.path = "fresh" /\ started = Requests
    /\ cached[1].has /\ cached[1].fetchedAt = 0 /\ clock = TickMs

\* C2: when the live fetch of an invocation fails (the listing fails, no
\* candidate is found, or the image request fails) and the local slot holds
\* an entry, expired or not, the response is 200 with the bytes and the
\* content type of the slot, marked X-Cache-Status: stale, without
\* Cache-Control.
StaleFallback ==
    \A r \in Requests : \A st \in HandlerSteps(r) :
        LET rec == st.rec
            slot == cached[rec.inst]
        IN  (req[r].pc \in {"listing", "image"} /\ rec.err # "none" /\ slot.has)
            => /\ rec.pc = "done"
               /\ rec.resp.status = 200
               /\ rec.resp.body = slot.data
               /\ rec.resp.contentType = slot.contentType
               /\ rec.resp.xCacheStatus = "stale"
               /\ st.slot = slot

\* An expired entry was served after a failed live fetch.
StaleFallbackWitness ==
    /\ out.path = "stale" /\ out.expired
    /\ \E i \in Instances : cached[i].has /\ clock - cached[i].fetchedAt >= CACHE_TTL_MS

\* C3: a failed live fetch with an empty local slot is answered 502 with a
\* plain-text body, and no other response has a status other than 200.
OnlyFailureWithoutCacheIs502 ==
    \A r \in Requests : \A st \in Responses(r) :
        LET rec == st.rec
            slot == cached[rec.inst]
            failedNoCache == /\ req[r].pc \in {"listing", "image"}
                             /\ rec.err # "none" /\ ~slot.has
        IN  /\ failedNoCache
               => /\ rec.resp.status = 502
                  /\ rec.resp.body = "Could not fetch image"
                  /\ rec.resp.contentType = "text/plain;charset=UTF-8"
            /\ ~failedNoCache => rec.resp.status = 200

\* A 502 was sent, by an invocation of an instance whose slot is empty.
Status502Witness ==
    /\ out.path = "error"
    /\ \A i \in Instances : ~cached[i].has

\* C4: the tiers are consulted in the order shared tier, local slot, live
\* fetch.  With the store configured and both reads giving a value (the
\* metadata parseable), the response is the blob, marked X-Cache-Source: kv,
\* whatever the local slot holds and with no upstream request; otherwise a
\* local entry of age strictly below the TTL is the response, with no
\* upstream request; otherwise, and only then, the listing request is sent.
TierOrder ==
    \A r \in Requests : \A st \in HandlerSteps(r) :
        LET rec == st.rec
            slot == cached[rec.inst]
            checking == req[r] = IdleReq \/ req[r].pc = "kvread"
            sharedHit == /\ deploy = "part000-kv"
                         /\ rec.buf.st = "value" /\ rec.metaStr.st = "value"
                         /\ rec.metaStr.v \in MetaTexts
            young == slot.has /\ rec.now - slot.fetchedAt < 10 * 60 * 1000
        IN  (checking /\ rec.pc # "kvread")
            => IF sharedHit
               THEN /\ rec.pc = "done"
                    /\ rec.resp.status = 200
                    /\ rec.resp.body = rec.buf.v
                    /\ rec.resp.xCacheSource = "kv"
                    /\ ~rec.upstream /\ rec.imageCalls = 0
               ELSE IF young
               THEN /\ rec.pc = "done"
                    /\ rec.resp.body = slot.data
                    /\ rec.resp.xCacheSource = Absent
                    /\ ~rec.upstream /\ rec.imageCalls = 0
               ELSE rec.pc = "listing" /\ rec.upstream

\* The shared tier answered on an instance whose own slot holds a fresh
\* entry with other bytes.
TierOrderWitness ==
    /\ out.path = "kv" /\ started = Requests /\ clock = 0
    /\ kv.blob.has /\ kv.meta.has
    /\ \E i \in Instances : cached[i].has /\ cached[i].data # kv.blob.val

\* C5, as stated: with the store configured, two 200 responses sent by
\* instance 1 and by instance 2 within one lifetime of the shared entry
\* (here: at the same time, the store holding an entry) carry the same
\* bytes when both instances missed and each ran a live fetch.
OrigC5 ==
    \A r \in Requests : \A st \in Responses(r) :
        (/\ deploy = "part000-kv" /\ clock = 0
         /\ kv.blob.has /\ kv.meta.has /\ kv.meta.val \in MetaTexts
         /\ started = Requests /\ st.rec.inst = 2
         /\ out.path = "live" /\ st.rec.path = "live")
        => st.rec.resp.body = out.body


\* C8: when the listing holds no post the filter keeps (children missing
\* or no array, or no post passing the keep rule), the candidate step throws
\* the error of the empty candidate set: no image request is sent, and the
\* catch block answers, with the stale entry of a non-empty slot and with
\* 502 otherwise.
EmptyCandidateSetFails ==
    \A r \in Requests : \A st \in HandlerSteps(r) :
        LET rec == st.rec
            slot == cached[rec.inst]
        IN  (req[r].pc = "listing" /\ rec.kept = 0)
            => /\ rec.pc = "done" /\ rec.err = "empty"
               /\ rec.imageCalls = 0
               /\ rec.imageUrl = <<>>
               /\ IF slot.has
                  THEN /\ rec.resp.status = 200
                       /\ rec.resp.body = slot.data
                       /\ rec.resp.xCacheStatus = "stale"
                  ELSE rec.resp.status = 502
               /\ st.slot = slot

\* An empty candidate set was answered with the stale entry.
EmptyCandidateSetWitness ==
    /\ out.empty /\ out.path = "stale"
    /\ \E i \in Instances : cached[i].has /\ cached[i].data = out.body

\* C9: a shared-tier read that gives no hit (a key missing, the metadata
\* unparseable, or a read that throws) sends no response of its own: the
\* invocation goes on with the local check as the handler without the store
\* does, answering from a fresh local entry and starting the live fetch
\* otherwise.
SharedReadNeverFatal ==
    \A r \in Requests : \A st \in HandlerSteps(r) :
        LET rec == st.rec
            slot == cached[rec.inst]
            bothValues == rec.buf.st = "value" /\ rec.metaStr.st = "value"
            noHit == \/ rec.buf.st \in {"null", "rejected"}
                     \/ rec.metaStr.st \in {"null", "rejected"}
                     \/ bothValues /\ rec.metaStr.v \notin MetaTexts
            young == slot.has /\ rec.now - slot.fetchedAt < 10 * 60 * 1000
            settled == \/ "rejected" \in {rec.buf.st, rec.metaStr.st}
                       \/ "pending" \notin {rec.buf.st, rec.metaStr.st}
        IN  (req[r].pc = "kvread" /\ settled /\ noHit)
            => /\ rec.path # "kv"
               /\ IF young
                  THEN /\ rec.pc = "done"
                       /\ rec.resp = [status |-> 200, body |-> slot.data,
                                      contentType |-> slot.contentType,
                                      cacheControl |-> CacheControlValue,
                                      xCacheStatus |-> Absent,
                                      xCacheSource |-> Absent]
                  ELSE /\ rec.pc = "listing"
                       /\ rec.resp = NoResponse
               /\ st.slot = slot

\* Blob and unparseable metadata are both in the store, and an invocation
\* was answered from the local slot.
SharedReadNeverFatalWitness ==
    /\ deploy = "part000-kv" /\ out.path = "fresh" /\ clock = 0
    /\ kv.blob.has /\ kv.meta.has /\ kv.meta.val = GarbageText

\* C10: a successful image request replaces the local slot by the fetched
\* bytes, their content type and the time of the fetch; and whatever the
\* puts to the store do, the response is 200 with those bytes, the normal
\* Cache-Control and no stale marker, and the slot keeps what it holds.
LiveFetchStoredAndServed ==
    \A r \in Requests : \A st \in HandlerSteps(r) :
        LET rec == st.rec
            slot == cached[rec.inst]
            live == [status |-> 200, body |-> rec.arrayBuffer,
                     contentType |-> rec.contentType,
                     cacheControl |-> "public, s-maxage=600, stale-while-revalidate=60",
                     xCacheStatus |-> Absent, xCacheSource |-> Absent]
        IN  /\ (req[r].pc = "image" /\ rec.err = "none")
               => /\ st.slot = [has |-> TRUE, fetchedAt |-> clock,
                                data |-> rec.arrayBuffer,
                                contentType |-> rec.contentType]
                  /\ rec.arrayBuffer \in {"bytes-1", "bytes-2"}
                  /\ IF deploy = "part000-kv"
                     THEN rec.pc = "kvwrite"
                     ELSE rec.pc = "done" /\ rec.resp = live
            /\ req[r].pc = "kvwrite"
               => /\ st.slot = slot
                  /\ rec.arrayBuffer = req[r].arrayBuffer
                  /\ rec.contentType = req[r].contentType
                  /\ rec.err = "none"
                  /\ IF "rejected" \in {rec.putBlob, rec.putMeta}
                        \/ {rec.putBlob, rec.putMeta} = {"ok"}
                     THEN rec.pc = "done" /\ rec.path = "live" /\ rec.resp = live
                     ELSE rec.pc = "kvwrite"

\* The put of the blob was rejected, and the invocation has answered from
\* its live fetch; the local slot holds what it fetched.
LiveFetchStoredAndServedWitness ==
    /\ deploy = "part000-kv" /\ out.path = "live" /\ clock = 0
    /\ started = {1} /\ req[1] = IdleReq
    /\ ~kv.blob.has
    /\ cached[1].has /\ cached[1].data = out.body

----------------------------------------------------------------------------
(* Properties of the candidate filter, checked under SpecFilter. *)

\* C6: when a kept post has a numeric score of at least the threshold, the
\* pool is exactly the kept posts with such a score; when none has, the pool
\* is all the kept posts; and the URL selected is the URL of a post of that
\* pool.
PoolRespectsThreshold ==
    LET kept == Candidates(Posts(fDoc))
        threshold == getMinUpvotes(fEnv)
        Meets(d) == d.score.t = "number" /\ d.score.n >= threshold
        qualifying == { k \in 1..Len(kept) : Meets(kept[k]) }
        expected == IF qualifying # {} THEN { kept[k] : k \in qualifying }
                    ELSE { kept[k] : k \in 1..Len(kept) }
        pool == SelectedPool(kept, threshold)
        UrlOf(d) == ReplaceAmp(OrElse(d.url_overridden_by_dest, d.url).s)
    IN  /\ { pool[k] : k \in 1..Len(pool) } = expected
        /\ qualifying = {} => pool = kept
        /\ fOut.t = "url" => \E d \in expected : fOut.url = UrlOf(d)
        /\ fOut.t = "throw" => expected = {}

\* A URL was selected from a listing with a kept post at the threshold and
\* a kept post below it.
PoolRespectsThresholdWitness ==
    LET kept == Candidates(Posts(fDoc))
        threshold == getMinUpvotes(fEnv)
    IN  /\ fOut.t = "url"
        /\ \E k \in 1..Len(kept) :
              kept[k].score.t = "number" /\ kept[k].score.n = threshold
        /\ \E k \in 1..Len(kept) :
              kept[k].score.t = "number" /\ kept[k].score.n < threshold

\* C7, as stated: a post is kept if and only if its URL (override, else
\* primary) has an image extension, or its hint is "image", or it has a
\* preview URL; and a kept post with a URL to resolve to is resolved to the
\* override, else the primary, else the preview URL, so that the candidate
\* step run on the listing of the post does not throw.
OrigC7 ==
    fOut.t # "none" => \A k \in 1..Len(Posts(fDoc)) :
        LET d == Posts(fDoc)[k]
            primary == OrElse(d.url_overridden_by_dest, d.url)
            claimKeep == \/ primary.t = "string"
                            /\ TestExt(primary.s, {ExtJpg, ExtJpeg, ExtPng, ExtGif, ExtWebp})
                         \/ d.post_hint = Str(ImageHint)
                         \/ Truthy(d.preview)
            claimUrl == OrElse(primary, d.preview)
        IN  /\ IsCandidate(d) => claimKeep
            /\ (claimKeep /\ claimUrl.t = "string" /\ claimUrl.s # <<>>)
               => /\ IsCandidate(d)
                  /\ fOut.t # "throw"
                  /\ ResolveUrl(d) = ReplaceAmp(claimUrl.s)

----------------------------------------------------------------------------
(* Further properties of the request handler, checked under Spec. *)

\* C11: the headers of a response follow from the path that produced it.
\* Every 200 response has a Content-Type; the responses of a shared-tier
\* hit, of a fresh local entry and of a successful live fetch have
\* Cache-Control: public, s-maxage=600, stale-while-revalidate=60; the
\* shared-tier hit, and no other, has X-Cache-Source: kv; the fallback of a
\* failed live fetch, and no other, has X-Cache-Status: stale, and has no
\* Cache-Control.
HeadersFollowPath ==
    \A r \in Requests : \A st \in Responses(r) :
        LET rec == st.rec
            resp == rec.resp
            sharedHit == /\ req[r].pc = "kvread"
                         /\ rec.buf.st = "value" /\ rec.metaStr.st = "value"
                         /\ rec.metaStr.v \in MetaTexts
            fromLocal == (req[r] = IdleReq \/ req[r].pc = "kvread") /\ ~sharedHit
            fromLive == req[r].pc \in {"image", "kvwrite"} /\ rec.err = "none"
            failed == req[r].pc \in {"listing", "image"} /\ rec.err # "none"
            cacheControl == "public, s-maxage=600, stale-while-revalidate=60"
        IN  /\ resp.status = 200
               => resp.contentType \notin {Absent, "", "throw", "null"}
            /\ (sharedHit \/ fromLocal \/ fromLive)
               => /\ resp.status = 200
                  /\ resp.cacheControl = cacheControl
                  /\ resp.xCacheStatus = Absent
            /\ resp.xCacheSource = (IF sharedHit THEN "kv" ELSE Absent)
            /\ (failed /\ resp.status = 200)
               => resp.xCacheStatus = "stale" /\ resp.cacheControl = Absent
            /\ resp.xCacheStatus = "stale" => failed
            /\ sharedHit \/ fromLocal \/ fromLive \/ failed

\* The shared tier served an image that a live fetch of this program had
\* stored.
HeadersFollowPathWitness ==
    /\ out.path = "kv" /\ out.body = "bytes-1"
    /\ kv.blob.has /\ kv.blob.val = "bytes-1"

\* C13, as stated: a request answered from the shared tier while the local
\* slot is empty leaves the slot non-empty, holding the image it served.
OrigC13 ==
    \A r \in Requests : \A st \in Responses(r) :
        (/\ req[r].pc = "kvread"
         /\ st.rec.resp.xCacheSource = "kv"
         /\ ~cached[st.rec.inst].has)
        => /\ st.slot.has
           /\ st.slot.data = st.rec.resp.body
           /\ st.slot.contentType = st.rec.resp.contentType

\* C13, amended: the local slot is created by a successful live fetch only.
\* A request answered from the shared tier leaves the slot as it was, empty
\* when it was empty, so that an instance that has served shared-tier hits
\* only has nothing to fall back to.
SlotCreatedByLiveFetchOnly ==
    \A r \in Requests : \A st \in HandlerSteps(r) :
        LET slot == cached[st.rec.inst]
        IN  /\ (req[r].pc = "kvread" /\ st.rec.resp.xCacheSource = "kv")
               => st.slot = slot
            /\ (~slot.has /\ st.slot.has)
               => /\ req[r].pc = "image" /\ st.rec.err = "none"
                  /\ st.slot.data = st.rec.arrayBuffer
                  /\ st.slot.contentType = st.rec.contentType
                  /\ st.slot.fetchedAt = clock

\* Both invocations were answered from the shared tier, and no instance
\* has a local entry.
SlotCreatedByLiveFetchOnlyWitness ==
    /\ out.path = "kv" /\ started = Requests
    /\ \A r \in Requests : req[r] = IdleReq
    /\ \A i \in Instances : ~cached[i].has
    /\ kv.blob.has /\ kv.blob.val = out.body

\* C14: invocations that all missed each run their own live fetch, and
\* each successful one replaces the local slot as a whole.  In every state a
\* slot is empty or holds the time, bytes and content type of one fetch
\* (upstream serves bytes-1 as image/png and bytes-2 as
\* application/octet-stream, so a mixed entry would show), and after a
\* successful image step the slot holds what that step fetched, whatever
\* another fetch had stored before.
LastWriterWins ==
    /\ \A i \in Instances :
          cached[i].has
          => /\ <<cached[i].data, cached[i].contentType>>
                  \in {<<"bytes-1", "image/png">>,
                       <<"bytes-2", "application/octet-stream">>}
             /\ cached[i].fetchedAt <= clock
    /\ \A r \in Requests : \A st \in HandlerSteps(r) :
          (req[r].pc = "image" /\ st.rec.err = "none")
          => /\ st.slot = [has |-> TRUE, fetchedAt |-> clock,
                           data |-> st.rec.arrayBuffer,
                           contentType |-> st.rec.contentType]
             /\ <<st.rec.arrayBuffer, st.rec.contentType>>
                  \in {<<"bytes-1", "image/png">>,
                       <<"bytes-2", "application/octet-stream">>}

\* Two invocations of instance 1 missed together and fetched different
\* images: the store has the bytes of the one, the slot those of the other.
LastWriterWinsWitness ==
    /\ deploy = "part000-kv" /\ clock = 0 /\ started = Requests
    /\ \A r \in Requests : req[r] = IdleReq
    /\ ~cached[2].has
    /\ cached[1].has /\ cached[1].data = "bytes-2"
    /\ kv.blob.has /\ kv.blob.val = "bytes-1"
    /\ out.path = "live" /\ out.body = "bytes-2"

\* C15: a step changes the local slot of an instance only when it is the
\* successful end of the image request of an invocation of that instance,
\* and then it replaces the slot by the whole entry of that fetch.  Every
\* other step (a response from a fresh entry or from the shared tier, a
\* failing listing or image step, a settling read or put, the passing of
\* time) leaves every slot as it was.
SlotChangedOnlyByLiveFetch ==
    [][ \A i \in Instances :
          cached'[i] # cached[i]
          => \E r \in Requests :
                /\ req[r].pc = "image" /\ req[r].inst = i
                /\ req'[r] # req[r]
                /\ cached'[i].has /\ cached'[i].fetchedAt = clock
                /\ <<cached'[i].data, cached'[i].contentType>>
                     \in {<<"bytes-1", "image/png">>,
                          <<"bytes-2", "application/octet-stream">>}
                /\ \/ /\ req'[r].pc = "kvwrite"
                      /\ req'[r].arrayBuffer = cached'[i].data
                      /\ req'[r].contentType = cached'[i].contentType
                   \/ /\ req'[r].pc = "idle"
                      /\ out'.path = "live" /\ out'.body = cached'[i].data
      ]_vars

\* A failed live fetch was answered from an entry that another invocation
\* had just stored, and the entry is still there.
SlotChangedOnlyByLiveFetchWitness ==
    /\ out.path = "stale" /\ ~out.expired /\ started = Requests
    /\ \E i \in Instances :
          cached[i].has /\ cached[i].data = out.body /\ cached[i].fetchedAt = clock

\* C16, checked under SpecFair: an invocation makes one pass.  Its listing
\* step sends at least one and at most four listing requests (exactly one
\* in route.ts); the image request is sent at most once, and only by a
\* listing step that got a document and kept a post; a failed image step
\* ends in the response; nothing is sent after the response; and, when
\* every call returns or fails, an invocation that has begun gets to its
\* response.
OnePassPerRequest ==
    /\ [](\A r \in Requests : \A st \in HandlerSteps(r) :
            LET rec == st.rec
            IN  /\ rec.imageCalls \in {0, 1}
                /\ req[r].pc = "listing"
                   => /\ rec.listingCalls >= 1
                      /\ rec.listingCalls <= (IF deploy = "route" THEN 1 ELSE 4)
                      /\ rec.pc \in {"image", "done"}
                      /\ rec.pc = "image"
                         => /\ rec.kept > 0 /\ rec.err = "none"
                            /\ req[r].imageCalls = 0 /\ rec.imageCalls = 1
                      /\ rec.pc = "done" => rec.imageCalls = 0 /\ rec.err # "none"
                /\ req[r].pc # "listing" => rec.imageCalls = req[r].imageCalls
                /\ req[r].pc = "image"
                   => /\ rec.pc \in {"kvwrite", "done"}
                      /\ rec.err # "none" => rec.pc = "done"
                /\ req[r].pc = "kvwrite" => rec.pc \in {"kvwrite", "done"}
                /\ (req[r].pc = "idle" /\ req[r] # IdleReq) => rec.pc = "idle")
    /\ \A r \in Requests : (req[r].pc # "idle") ~> (req[r].pc = "idle")

\* In the four-variant handler one invocation has been answered 502 and the
\* other has its one image request in flight.
OnePassPerRequestWitness ==
    /\ deploy = "part000" /\ started = Requests
    /\ out.path = "error"
    /\ \E r \in Requests : req[r].pc = "image" /\ req[r].imageCalls = 1

\* C17: the local slot is never emptied: a slot that holds an entry holds
\* one after every step; and every response of an invocation whose instance
\* holds an entry is a 200, whatever fails upstream.
SlotNeverCleared ==
    /\ [][\A i \in Instances : cached[i].has => cached'[i].has]_vars
    /\ [](\A r \in Requests : \A st \in Responses(r) :
            cached[st.rec.inst].has
            => /\ st.rec.resp.status = 200
               /\ st.rec.path \in {"fresh", "kv", "live", "stale"}
               /\ st.slot.has)

\* In route.ts, after the first invocation has fetched an image, the live
\* fetch of the second has failed at the end of the TTL and was answered
\* from the slot.
SlotNeverClearedWitness ==
    /\ deploy = "route" /\ started = Requests
    /\ \A r \in Requests : req[r] = IdleReq
    /\ clock = MaxTicks * TickMs
    /\ cached[1].has /\ cached[1].fetchedAt = 0
    /\ out.path = "stale" /\ out.expired /\ out.body = cached[1].data

\* C18, as stated: a response marked X-Cache-Status: stale serves a local
\* entry whose age is at least the TTL when the response is built, also
\* when another invocation has replaced the slot while the failing fetch of
\* this one was in flight.
OrigC18 ==
    \A r \in Requests : \A st \in Responses(r) :
        LET slot == cached[st.rec.inst]
        IN  st.rec.resp.xCacheStatus = "stale"
            => slot.has /\ clock - slot.fetchedAt >= 10 * 60 * 1000

\* C19, as stated: a shared-tier hit serves a blob with the content type
\* that the same live fetch stored with it (upstream serves bytes-1 as
\* image/png and bytes-2 as application/octet-stream), however the puts of
\* the two keys, the reads of the two keys and the expiry of the two keys
\* interleave.
OrigC19 ==
    \A r \in Requests : \A st \in Responses(r) :
        st.rec.resp.xCacheSource = "kv"
        => <<st.rec.resp.body, st.rec.resp.contentType>>
             \in {<<"bytes-1", "image/png">>,
                  <<"bytes-2", "application/octet-stream">>}

----------------------------------------------------------------------------
(* Properties of the listing requests, checked under SpecListing. *)

\* C12, as stated: in the handler with four variants, the variants are
\* requested in their order, a variant is requested only after every earlier
\* one has failed, and the listing part throws only after all four variants
\* have failed, with the error of the last of them.
OrigC12 ==
    LET n == Len(loop.log)
        Failed(k) == ~loop.answers[k].ok
    IN  deploy = "part000"
        => /\ loop.log = [k \in 1..n |-> k]
           /\ \A k \in 1..n : k < n => Failed(k)
           /\ (loop.out # LoopRunning /\ loop.out.thrown)
              => /\ n = 4
                 /\ \A k \in 1..4 : Failed(k)
                 /\ loop.out.err = loop.answers[4].fault

\* C12, amended: the variants are requested in their order, a variant is
\* requested only after every earlier one has failed (a 403, another non-2xx
\* status, a rejected request or a body that does not parse), and the
\* listing part throws in two cases only: all four variants have failed, and
\* the error is that of the fourth; or a variant was answered 2xx with the
\* JSON document null, and then no further variant is requested and the
\* error is that of the failed variant before it, the generic error when it
\* was the first.  Otherwise the document of the first variant that did not
\* fail is handed on.
ListingVariantsInOrder ==
    LET n == Len(loop.log)
        Failed(k) == ~loop.answers[k].ok
        NullAt(k) == loop.answers[k].ok /\ loop.answers[k].json.t = "null"
        ended == loop.out # LoopRunning
    IN  deploy = "part000"
        => /\ loop.log = [k \in 1..n |-> k]
           /\ n <= 4
           /\ \A k \in 1..n : k < n => Failed(k)
           /\ ended => n >= 1 /\ (n = 4 \/ ~Failed(n))
           /\ (ended /\ Failed(n))
              => /\ loop.out.thrown
                 /\ loop.out.err = loop.answers[4].fault
                 /\ loop.out.err \in {"status403", "statusOther", "network", "parse"}
           /\ (ended /\ NullAt(n))
              => /\ loop.out.thrown
                 /\ loop.out.err = (IF n = 1 THEN "generic" ELSE loop.answers[n - 1].fault)
           /\ (ended /\ ~Failed(n) /\ ~NullAt(n))
              => /\ ~loop.out.thrown
                 /\ loop.out.json = loop.answers[n].json
           /\ ended => loop.out.calls = n

\* All four variants were requested and failed, each in another way, and
\* the error of the fourth was thrown.
ListingVariantsInOrderWitness ==
    /\ deploy = "part000"
    /\ loop.out # LoopRunning /\ loop.out.thrown
    /\ loop.log = <<1, 2, 3, 4>>
    /\ loop.answers[1].fault = "status403" /\ loop.answers[2].fault = "statusOther"
    /\ loop.answers[3].fault = "network" /\ loop.answers[4].fault = "parse"
    /\ loop.out.err = "parse"

============================================================================
